---- MODULE Spec2Model ----
(***************************************************************************)
(* Model of the Keyring NIF (src/native/keyring_nif/src/lib.rs): Ed25519   *)
(* key generation, signing and verification, BLAKE3 hashing, and the store *)
(* and QUIC stubs, as exposed to Elixir through Rustler.                   *)
(*                                                                         *)
(* Binaries are sequences of bytes with their real lengths (32-byte keys   *)
(* and digests, 64-byte signatures).  The two external primitives are      *)
(* modelled by small arithmetic stand-ins with the same interfaces:        *)
(*   - BLAKE3 is a polynomial hash expanded to 32 bytes;                   *)
(*   - Ed25519 is a Schnorr signature over the additive group of integers  *)
(*     modulo GroupOrder, with the same equations as EdDSA                 *)
(*     (A = a*B, R = r*B, S = r + H(R,A,M)*a, check S*B = R + H(R,A,M)*A). *)
(* Every NIF touches shared state at most once (the OsRng draw of          *)
(* generate_keypair), so a call is one atomic step and calls made from     *)
(* several scheduler threads interleave as a sequence of such steps.  The  *)
(* caller takes each result before the next call is looked at: it keeps it *)
(* (Keep) or lets it go (Drop).                                            *)
(***************************************************************************)
EXTENDS Integers, Sequences, FiniteSets, TLC

\* Bounds of the model.
MaxMsgLen == 1
MaxSeed == 2

\* Widths fixed by the program.
KeyLen == 32
SigLen == 64
DigestLen == 32

\* Parameters of the stand-ins for the primitives.
GroupOrder == 32749
BasePoint == 9
HashMod == 8000009
HashMul == 257

VARIABLES
    keyring,    \* the keypair maps generate_keypair has returned to the caller
    osrng,      \* the process-wide OsRng: which output it produced last (0: none yet)
    kept,       \* the call (with its result) the caller has kept
    last,       \* the call that has just returned, with its result (none: taken)
    drawn       \* whether OsRng has been drawn from since the kept call returned

vars == <<keyring, osrng, kept, last, drawn>>

\* ------------------------------------------------------------- binaries

Fill(n, b) == [i \in 1..n |-> b]

\* NewBinary::new(env, n) followed by copy_from_slice(src): panics unless
\* the source has exactly n bytes.
Fits(n, src) == Len(src) = n

\* ------------------------------------------------------------ Erlang terms

NoMap == [secret |-> <<>>, public |-> <<>>, node_id |-> <<>>]

Term(shape, tag, reason, bin, map) ==
    [shape |-> shape, tag |-> tag, reason |-> reason, bin |-> bin, map |-> map]

\* a bare atom: true, false, ok
AtomTerm(a) == Term("atom", a, "", <<>>, NoMap)
\* a binary
BinaryTerm(b) == Term("binary", "", "", b, NoMap)
\* Rustler's encoding of Ok(binary): {ok, binary}
OkTuple(b) == Term("tuple", "ok", "", b, NoMap)
\* Rustler's encoding of Err(atom), and of an (Atom, Atom) pair: {a, b}
AtomPair(a, b) == Term("tuple", a, b, <<>>, NoMap)
\* the map %{secret, public, node_id}
MapTerm(m) == Term("map", "", "", <<>>, m)
\* a panic inside the NIF surfaces as an exception in the caller
Raised == Term("exception", "", "", <<>>, NoMap)
\* no call has returned yet
NoTerm == Term("none", "", "", <<>>, NoMap)

\* ------------------------------------------------------------ primitives

\* the hash state h after absorbing bytes lo..hi of s
RECURSIVE Absorb(_, _, _, _)
Absorb(h, s, lo, hi) ==
    IF hi < lo THEN h
    ELSE (Absorb(h, s, lo, hi - 1) * HashMul + s[hi] + 1) % HashMod

AbsorbBlock(h, s, n) == IF h < 0 THEN h ELSE Absorb(h, s, n - 7, n)

\* the hash state after absorbing the first n bytes of s, eight at a time
RECURSIVE AbsorbBlocks(_, _, _)
AbsorbBlocks(h, s, n) ==
    IF n <= 8 THEN Absorb(h, s, 1, n)
    ELSE AbsorbBlock(AbsorbBlocks(h, s, n - 8), s, n)

Hash32(h, s) == AbsorbBlocks(h, s, Len(s))

\* blake3::hash(data).as_bytes(): 32 bytes
Blake3(data) ==
    LET h == Hash32(7, data)
    IN  [i \in 1..32 |->
            (h \div (IF i % 3 = 0 THEN 65536 ELSE IF i % 3 = 2 THEN 256 ELSE 1)
               + i) % 256]

\* OsRng.fill_bytes: the 32 bytes of the draw numbered seed
OsRng_fill(seed) == [i \in 1..32 |-> (seed * i) % 256]

Mul(a, b) == (a * b) % GroupOrder

\* canonical 32-byte little-endian encoding of a group element or scalar
PointEnc(x) ==
    [i \in 1..32 |-> IF i = 1 THEN x % 256 ELSE IF i = 2 THEN x \div 256 ELSE 0]

PointValid(b) == (\A i \in 3..32 : b[i] = 0) /\ b[1] + 256 * b[2] < GroupOrder

PointDec(b) == b[1] + 256 * b[2]

\* the secret scalar and the nonce prefix expanded from the 32 seed bytes
ExpandSeed(seed) ==
    [scalar |-> 1 + (Hash32(1, seed) % (GroupOrder - 1)), prefix |-> Hash32(2, seed)]

\* the 32-byte secrets that occur in a run, expanded once
SecretPool == {OsRng_fill(n) : n \in 1..MaxSeed} \cup {[i \in 1..32 |-> 0]}

ExpandTable == [seed \in SecretPool |-> ExpandSeed(seed)]

ExpandedSecretKey(seed) ==
    IF seed \in DOMAIN ExpandTable THEN ExpandTable[seed] ELSE ExpandSeed(seed)

\* the per-message nonce r = H(prefix || M)
Nonce(expanded, msg) == Hash32(expanded.prefix, msg) % GroupOrder

\* the challenge H(R || A || M), over the significant bytes of R and A
Challenge(R, A, msg) ==
    Hash32(3, <<R % 256, R \div 256, A % 256, A \div 256>> \o msg) % GroupOrder

\* SigningKey::from_bytes(&[u8; 32]): infallible
SigningKey_from_bytes(bytes) ==
    LET expanded == ExpandedSecretKey(bytes)
    IN  [secret |-> bytes, scalar |-> expanded.scalar, prefix |-> expanded.prefix,
         verifying |-> Mul(expanded.scalar, BasePoint)]

\* SigningKey::generate(&mut OsRng)
SigningKey_generate(entropy) == SigningKey_from_bytes(entropy)

\* VerifyingKey::from_bytes(&[u8; 32]): fails on bytes that are no valid point
VerifyingKey_from_bytes(bytes) ==
    IF PointValid(bytes) THEN [ok |-> TRUE, key |-> PointDec(bytes)]
    ELSE [ok |-> FALSE, key |-> 0]

\* the signature R || S (64 bytes) made with the nonce r
SignWithNonce(sk, msg, r) ==
    LET R == Mul(r, BasePoint)
        h == Challenge(R, sk.verifying, msg)
        S == (r + Mul(h, sk.scalar)) % GroupOrder
    IN  PointEnc(R) \o PointEnc(S)

\* signing_key.sign(msg).to_bytes(): deterministic, the nonce comes from the key
Signer_sign(sk, msg) == SignWithNonce(sk, msg, Nonce(sk, msg))

\* verifying_key.verify(msg, &Signature::from_bytes(sig)).is_ok()
Verifier_verify(vk, msg, sig) ==
    LET Rb == SubSeq(sig, 1, 32)
        Sb == SubSeq(sig, 33, 64)
    IN  /\ PointValid(Rb)
        /\ PointValid(Sb)
        /\ Mul(PointDec(Sb), BasePoint)
             = (PointDec(Rb) + Mul(Challenge(PointDec(Rb), vk, msg), vk)) % GroupOrder

\* ------------------------------------------------------------------ NIFs

\* as generate_keypair, but the node id is the digest of the secret bytes
generate_keypair_hashes_secret(entropy) ==
    LET signing_key == SigningKey_generate(entropy)
        verifying_key == signing_key.verifying
        node_id_hash == Blake3(signing_key.secret)
    IN  MapTerm([secret |-> signing_key.secret, public |-> PointEnc(verifying_key),
                 node_id |-> node_id_hash])

generate_keypair(entropy) ==
    LET signing_key == SigningKey_generate(entropy)
        verifying_key == signing_key.verifying
        node_id_hash == Blake3(PointEnc(verifying_key))
        secret_bytes == signing_key.secret
        public_bytes == PointEnc(verifying_key)
    IN  IF /\ Fits(32, secret_bytes)
           /\ Fits(32, public_bytes)
           /\ Fits(32, node_id_hash)
        THEN MapTerm([secret |-> secret_bytes, public |-> public_bytes,
                      node_id |-> node_id_hash])
        ELSE Raised

\* as blake3_hash, but the output binary is sized by the input
blake3_hash_sized_by_input(data) ==
    LET hash == Blake3(data)
    IN  IF Fits(Len(data), hash) THEN BinaryTerm(hash) ELSE Raised

blake3_hash(data) ==
    LET hash == Blake3(data)
    IN  IF Fits(DigestLen, hash) THEN BinaryTerm(hash) ELSE Raised

\* as ed25519_sign, but key_bytes is never filled: it stays all zeros
ed25519_sign_zero_key(data, secret_key) ==
    IF Len(secret_key) # KeyLen THEN AtomPair("error", "error")
    ELSE OkTuple(Signer_sign(SigningKey_from_bytes(Fill(32, 0)), data))

\* as ed25519_sign, but the nonce is drawn from the shared OsRng
ed25519_sign_randomized(data, secret_key) ==
    IF Len(secret_key) # KeyLen THEN AtomPair("error", "error")
    ELSE LET signing_key == SigningKey_from_bytes(secret_key)
         IN  OkTuple(SignWithNonce(signing_key, data,
                                   (Nonce(signing_key, data) + osrng) % GroupOrder))

\* as ed25519_sign, but only keys shorter than 32 bytes are refused
ed25519_sign_min_len(data, secret_key) ==
    IF Len(secret_key) < KeyLen THEN AtomPair("error", "error")
    ELSE IF ~Fits(32, secret_key) THEN Raised
    ELSE OkTuple(Signer_sign(SigningKey_from_bytes(secret_key), data))

ed25519_sign(data, secret_key) ==
    IF Len(secret_key) # KeyLen THEN AtomPair("error", "error")
    ELSE IF ~Fits(32, secret_key) THEN Raised
    ELSE LET signing_key == SigningKey_from_bytes(secret_key)
             sig_bytes == Signer_sign(signing_key, data)
         IN  IF Fits(SigLen, sig_bytes) THEN OkTuple(sig_bytes) ELSE Raised

\* as ed25519_verify, without the length check
ed25519_verify_unchecked_len(data, signature, public_key) ==
    IF ~Fits(32, public_key) \/ ~Fits(64, signature) THEN Raised
    ELSE LET verifying_key == VerifyingKey_from_bytes(public_key)
         IN  IF verifying_key.ok /\ Verifier_verify(verifying_key.key, data, signature)
             THEN AtomTerm("true")
             ELSE AtomTerm("false")

\* as ed25519_verify, but the signature is checked over an empty slice
ed25519_verify_empty_data(data, signature, public_key) ==
    IF Len(public_key) # KeyLen \/ Len(signature) # SigLen THEN AtomTerm("false")
    ELSE LET verifying_key == VerifyingKey_from_bytes(public_key)
         IN  IF verifying_key.ok /\ Verifier_verify(verifying_key.key, <<>>, signature)
             THEN AtomTerm("true")
             ELSE AtomTerm("false")

\* as ed25519_verify, but the result of verify() is dropped once the key decodes
ed25519_verify_decode_only(data, signature, public_key) ==
    IF Len(public_key) # KeyLen \/ Len(signature) # SigLen THEN AtomTerm("false")
    ELSE IF VerifyingKey_from_bytes(public_key).ok THEN AtomTerm("true")
    ELSE AtomTerm("false")

ed25519_verify(data, signature, public_key) ==
    IF Len(public_key) # KeyLen \/ Len(signature) # SigLen THEN AtomTerm("false")
    ELSE IF ~Fits(32, public_key) \/ ~Fits(64, signature) THEN Raised
    ELSE LET verifying_key == VerifyingKey_from_bytes(public_key)
         IN  IF ~verifying_key.ok THEN AtomTerm("false")
             ELSE IF Verifier_verify(verifying_key.key, data, signature)
                  THEN AtomTerm("true")
                  ELSE AtomTerm("false")

store_open(path) == AtomPair("error", "not_implemented")
store_put_blob(store) == AtomPair("error", "not_implemented")
store_get_blob(store) == AtomPair("error", "not_implemented")
store_has_blob(store) == AtomPair("error", "not_implemented")
store_put_document(store) == AtomPair("error", "not_implemented")
store_get_document(store) == AtomPair("error", "not_implemented")
store_list_documents(store) == AtomPair("error", "not_implemented")
store_delete_document(store) == AtomPair("error", "not_implemented")
quic_connect(host) == AtomPair("error", "not_implemented")
quic_send(conn) == AtomPair("error", "not_implemented")
quic_recv(conn) == AtomPair("error", "not_implemented")
quic_close(conn) == AtomTerm("ok")
quic_listen(port) == AtomPair("error", "not_implemented")
quic_accept(listener) == AtomPair("error", "not_implemented")

\* ------------------------------------------------------------- the caller

\* the arguments of a call; a field an operation does not take is empty
Call(op, data, key, sig, arg) ==
    [op |-> op, data |-> data, key |-> key, sig |-> sig, arg |-> arg]

NoCall == Call("none", <<>>, <<>>, <<>>, 0)

\* a returned call: its arguments and its result
Record(call, res) == [call |-> call, res |-> res]

NoRecord == Record(NoCall, NoTerm)

MsgBytes == {0, 255}
Messages == {Fill(n, b) : n \in 0..MaxMsgLen, b \in MsgBytes}

\* secrets that did not come from generate_keypair: all zeros, too short, too long
BadSecrets == {Fill(32, 0), Fill(31, 1), Fill(33, 1)}
\* signatures of the wrong length
BadSigs == {Fill(63, 0), Fill(65, 0)}
\* public keys of the wrong length, and 32 bytes that are no valid point
BadPubs == {Fill(31, 0), Fill(33, 0), Fill(32, 255)}
\* handles, paths, ports handed to the stubs
StubArgs == {0, 1}

HeldSecrets == {k.secret : k \in keyring}
HeldPublics == {k.public : k \in keyring}
\* the signature the caller holds: one it was given by a kept sign call, or
\* the one it passed to a kept verify call
HeldSigs ==
    IF kept.call.op = "ed25519_sign" /\ kept.res.tag = "ok" THEN {kept.res.bin}
    ELSE IF kept.call.op = "ed25519_verify" THEN {kept.call.sig}
    ELSE {}

Idle == last = NoRecord

Returns(call, res) ==
    /\ last' = Record(call, res)
    /\ UNCHANGED kept

Generate ==
    /\ Idle
    /\ \E seed \in 1..MaxSeed :
        LET res == generate_keypair(OsRng_fill(seed))
        IN  /\ osrng' = seed
            /\ drawn' = TRUE
            /\ keyring' = IF res.shape = "map" THEN keyring \cup {res.map} ELSE keyring
            /\ Returns(Call("generate_keypair", <<>>, <<>>, <<>>, 0), res)

Hash ==
    /\ Idle
    /\ \E data \in Messages \cup HeldPublics :
        /\ UNCHANGED <<keyring, osrng, drawn>>
        /\ Returns(Call("blake3_hash", data, <<>>, <<>>, 0), blake3_hash(data))

Sign ==
    /\ Idle
    /\ \E data \in Messages, secret \in HeldSecrets \cup BadSecrets :
        /\ UNCHANGED <<keyring, osrng, drawn>>
        /\ Returns(Call("ed25519_sign", data, secret, <<>>, 0),
                   ed25519_sign(data, secret))

Verify ==
    /\ Idle
    /\ \E data \in Messages, sig \in HeldSigs \cup BadSigs, pub \in HeldPublics \cup BadPubs :
        /\ UNCHANGED <<keyring, osrng, drawn>>
        /\ Returns(Call("ed25519_verify", data, pub, sig, 0),
                   ed25519_verify(data, sig, pub))

\* the caller keeps the call that has just returned: a sign or hash call, or a
\* verification that accepted the signature
Keep ==
    /\ \/ last.call.op \in {"ed25519_sign", "blake3_hash"}
       \/ last.call.op = "ed25519_verify" /\ last.res.tag = "true"
    /\ kept' = last
    /\ last' = NoRecord
    /\ drawn' = FALSE
    /\ UNCHANGED <<keyring, osrng>>

\* the caller lets the result go
Drop ==
    /\ ~Idle
    /\ last' = NoRecord
    /\ UNCHANGED <<keyring, osrng, kept, drawn>>

Stub(op, res, arg) ==
    /\ Idle
    /\ UNCHANGED <<keyring, osrng, drawn>>
    /\ Returns(Call(op, <<>>, <<>>, <<>>, arg), res)

StoreOpen == \E a \in StubArgs : Stub("store_open", store_open(a), a)
StorePutBlob == \E a \in StubArgs : Stub("store_put_blob", store_put_blob(a), a)
StoreGetBlob == \E a \in StubArgs : Stub("store_get_blob", store_get_blob(a), a)
StoreHasBlob == \E a \in StubArgs : Stub("store_has_blob", store_has_blob(a), a)
StorePutDocument == \E a \in StubArgs : Stub("store_put_document", store_put_document(a), a)
StoreGetDocument == \E a \in StubArgs : Stub("store_get_document", store_get_document(a), a)
StoreListDocuments == \E a \in StubArgs : Stub("store_list_documents", store_list_documents(a), a)
StoreDeleteDocument == \E a \in StubArgs : Stub("store_delete_document", store_delete_document(a), a)
QuicConnect == \E a \in StubArgs : Stub("quic_connect", quic_connect(a), a)
QuicSend == \E a \in StubArgs : Stub("quic_send", quic_send(a), a)
QuicRecv == \E a \in StubArgs : Stub("quic_recv", quic_recv(a), a)
QuicClose == \E a \in StubArgs : Stub("quic_close", quic_close(a), a)
QuicListen == \E a \in StubArgs : Stub("quic_listen", quic_listen(a), a)
QuicAccept == \E a \in StubArgs : Stub("quic_accept", quic_accept(a), a)

Init ==
    /\ keyring = {}
    /\ osrng = 0
    /\ kept = NoRecord
    /\ last = NoRecord
    /\ drawn = FALSE

Next ==
    \/ Generate
    \/ Hash
    \/ Sign
    \/ Verify
    \/ Keep
    \/ Drop
    \/ StoreOpen
    \/ StorePutBlob
    \/ StoreGetBlob
    \/ StoreHasBlob
    \/ StorePutDocument
    \/ StoreGetDocument
    \/ StoreListDocuments
    \/ StoreDeleteDocument
    \/ QuicConnect
    \/ QuicSend
    \/ QuicRecv
    \/ QuicClose
    \/ QuicListen
    \/ QuicAccept

Spec == Init /\ [][Next]_vars

\* ---------------------------------------------------------------- claims

StubOps ==
    {"store_open", "store_put_blob", "store_get_blob", "store_has_blob",
     "store_put_document", "store_get_document", "store_list_documents",
     "store_delete_document", "quic_connect", "quic_send", "quic_recv",
     "quic_close", "quic_listen", "quic_accept"}

\* the kept call is a successful ed25519_sign of message m with secret s
KeptSigned(m, s) ==
    /\ kept.call.op = "ed25519_sign"
    /\ kept.call.data = m
    /\ kept.call.key = s
    /\ kept.res.shape = "tuple"
    /\ kept.res.tag = "ok"

\* the call that has just returned is ed25519_verify(m, the kept signature, p)
VerifiedKept(m, p) ==
    /\ last.call.op = "ed25519_verify"
    /\ last.call.data = m
    /\ last.call.sig = kept.res.bin
    /\ last.call.key = p

\* C1: round trip. Signing a message with the secret of a generated keypair
\* returns a signature, and verifying that message with that signature under
\* the public key of the same keypair returns true.
C1_RoundTrip ==
    \A k \in keyring :
        /\ (kept.call.op = "ed25519_sign" /\ kept.call.key = k.secret)
              => KeptSigned(kept.call.data, k.secret)
        /\ \A m \in Messages :
              (KeptSigned(m, k.secret) /\ VerifiedKept(m, k.public))
                 => last.res = AtomTerm("true")

C1_Witness ==
    \E k \in keyring :
        /\ KeptSigned(<<>>, k.secret)
        /\ VerifiedKept(<<>>, k.public)
        /\ last.res = AtomTerm("true")

\* C2: verification is total. A signature that is not 64 bytes, a public key
\* that is not 32 bytes, or 32 key bytes that do not decode make ed25519_verify
\* return the plain atom false; and every result of ed25519_verify is the atom
\* true or the atom false, never an error tuple or an exception.
C2_VerifyMalformedFalse ==
    last.call.op = "ed25519_verify" =>
        /\ last.res \in {AtomTerm("true"), AtomTerm("false")}
        /\ (\/ Len(last.call.sig) # 64
            \/ Len(last.call.key) # 32
            \/ ~VerifyingKey_from_bytes(last.call.key).ok)
              => last.res = AtomTerm("false")

C2_Witness ==
    /\ last.call.op = "ed25519_verify"
    /\ KeptSigned(last.call.data, kept.call.key)
    /\ last.call.sig = kept.res.bin
    /\ Len(last.call.key) = 32
    /\ ~VerifyingKey_from_bytes(last.call.key).ok
    /\ last.res = AtomTerm("false")

\* C3: signing with a secret that is not 32 bytes returns the error tuple whose
\* reason is the named atom invalid_key_length.
C3_InvalidKeyLength ==
    (last.call.op = "ed25519_sign" /\ Len(last.call.key) # 32)
        => last.res = AtomPair("error", "invalid_key_length")

\* C4: tamper detection. A signature made over m1 with the secret of a
\* generated keypair does not verify over a different message m2 under the
\* public key of that keypair.
C4_TamperDetected ==
    \A k \in keyring : \A m1, m2 \in Messages :
        (m1 # m2 /\ KeptSigned(m1, k.secret) /\ VerifiedKept(m2, k.public))
            => last.res = AtomTerm("false")

C4_Witness ==
    \E k \in keyring :
        /\ KeptSigned(<<>>, k.secret)
        /\ VerifiedKept(<<0>>, k.public)
        /\ last.res = AtomTerm("false")

\* C5: wrong-key rejection. A signature made with the secret of one generated
\* keypair does not verify, over the same message, under the public key of
\* another generated keypair.
C5_WrongKeyRejected ==
    \A k1, k2 \in keyring : \A m \in Messages :
        (k1.secret # k2.secret /\ KeptSigned(m, k1.secret) /\ VerifiedKept(m, k2.public))
            => last.res = AtomTerm("false")

C5_Witness ==
    \E k1, k2 \in keyring :
        /\ k1.secret # k2.secret
        /\ KeptSigned(<<255>>, k1.secret)
        /\ VerifiedKept(<<255>>, k2.public)
        /\ last.res = AtomTerm("false")

\* the three binaries of a keypair map are 32 bytes each, public is the
\* verifying key of secret, and node_id is what blake3_hash returns for public
WellFormedKeypair(k) ==
    /\ Len(k.secret) = 32
    /\ Len(k.public) = 32
    /\ Len(k.node_id) = 32
    /\ k.public = PointEnc(SigningKey_from_bytes(k.secret).verifying)
    /\ BinaryTerm(k.node_id) = blake3_hash(k.public)

\* C6: every result of generate_keypair is a map of three 32-byte binaries in
\* which public is the verifying key derived from secret and node_id is the
\* BLAKE3 hash of public: a later blake3_hash of public returns node_id.
C6_NodeIdDerivation ==
    /\ last.call.op = "generate_keypair"
          => (last.res.shape = "map" /\ WellFormedKeypair(last.res.map))
    /\ \A k \in keyring :
          /\ WellFormedKeypair(k)
          /\ (last.call.op = "blake3_hash" /\ last.call.data = k.public)
                => last.res = BinaryTerm(k.node_id)

C6_Witness ==
    \E k \in keyring :
        /\ last.call.op = "blake3_hash"
        /\ last.call.data = k.public
        /\ last.res = BinaryTerm(k.node_id)

\* C7: every store_* and quic_* operation returns {error, not_implemented}.
C7_StubsNotImplemented ==
    last.call.op \in StubOps => last.res = AtomPair("error", "not_implemented")

C9_DigestTotalDeterministic ==
    last.call.op = "blake3_hash" =>
        /\ last.res.shape = "binary"
        /\ Len(last.res.bin) = 32
        /\ (kept.call.op = "blake3_hash" /\ kept.call.data = last.call.data)
              => last.res.bin = kept.res.bin

C9_Witness ==
    /\ last.call.op = "blake3_hash"
    /\ last.call.data = <<>>
    /\ kept.call.op = "blake3_hash"
    /\ kept.call.data = <<>>
    /\ drawn
    /\ Len(last.res.bin) = 32

\* C10: the length check is the only failure path of signing. A secret of
\* exactly 32 bytes, whatever its content, gives {ok, signature} with a
\* signature of exactly 64 bytes; any other length gives an error tuple.
C10_SignFailsOnlyOnLength ==
    last.call.op = "ed25519_sign" =>
        /\ last.res.shape = "tuple"
        /\ Len(last.call.key) = 32 => (last.res.tag = "ok" /\ Len(last.res.bin) = 64)
        /\ Len(last.call.key) # 32 => last.res.tag = "error"

C10_Witness ==
    /\ last.call.op = "ed25519_sign"
    /\ last.call.key = Fill(32, 0)
    /\ last.res.tag = "ok"
    /\ Len(last.res.bin) = 64

====
